---- MODULE Spec2Model ----
(***************************************************************************)
(* Model of mp3-to-text-gui.py: the transcription pipeline                 *)
(* transcribe_mp3_to_text_and_srt with its helpers format_transcription    *)
(* and format_time.  Strings are sequences of one-character strings.       *)
(***************************************************************************)
EXTENDS Integers, Sequences, FiniteSets, TLC

(***************************************************************************)
(* Characters and the str methods the code uses.                           *)
(***************************************************************************)
Lowercase == <<"a","b","c","d","e","f","g","h","i","j","k","l","m",
               "n","o","p","q","r","s","t","u","v","w","x","y","z">>

Uppercase == <<"A","B","C","D","E","F","G","H","I","J","K","L","M",
               "N","O","P","Q","R","S","T","U","V","W","X","Y","Z">>

Digits == <<"0","1","2","3","4","5","6","7","8","9">>

\* str.isspace() of one character
IsSpace(c) == c \in {" ", "\n", "\t", "\r"}

\* the character class [.!?] of the two regular expressions
IsPunct(c) == c \in {".", "!", "?"}

\* str.islower() of one character
islower(c) == \E k \in 1..Len(Lowercase) : Lowercase[k] = c

\* str.upper() of one character
upper(c) == IF islower(c)
            THEN Uppercase[CHOOSE k \in 1..Len(Lowercase) : Lowercase[k] = c]
            ELSE c

\* s.strip() == '' : the string holds whitespace only (or nothing)
IsBlank(s) == \A k \in 1..Len(s) : IsSpace(s[k])

Min(S) == CHOOSE x \in S : \A y \in S : x <= y

Max(S) == CHOOSE x \in S : \A y \in S : x >= y

\* positions of s that hold something other than whitespace
Inked(s) == {k \in 1..Len(s) : ~IsSpace(s[k])}

lstrip(s) == IF Inked(s) = {} THEN <<>> ELSE SubSeq(s, Min(Inked(s)), Len(s))

rstrip(s) == IF Inked(s) = {} THEN <<>> ELSE SubSeq(s, 1, Max(Inked(s)))

\* str.strip()
strip(s) == rstrip(lstrip(s))

\* sep.join(parts)
RECURSIVE join(_, _)
join(sep, parts) ==
    IF parts = <<>> THEN <<>>
    ELSE IF Len(parts) = 1 THEN parts[1]
    ELSE parts[1] \o sep \o join(sep, Tail(parts))

\* text[0].upper() + text[1:] when text starts with a lowercase letter
Capitalize(s) == IF s # <<>> /\ islower(s[1])
                 THEN <<upper(s[1])>> \o Tail(s)
                 ELSE s

(***************************************************************************)
(* format_time: milliseconds -> HH:MM:SS,mmm                               *)
(***************************************************************************)
\* str(n) for n >= 0
RECURSIVE Decimal(_)
Decimal(n) == IF n < 10 THEN <<Digits[n + 1]>>
              ELSE Decimal(n \div 10) \o <<Digits[(n % 10) + 1]>>

\* f"{n:0wd}" for n >= 0: zero-padded to at least w characters
RECURSIVE ZeroPad(_, _)
ZeroPad(s, w) == IF Len(s) >= w THEN s ELSE ZeroPad(<<"0">> \o s, w)

FormatD(n, w) == ZeroPad(Decimal(n), w)

\* format_time with the minutes not reduced modulo 60
format_time_MinutesNotWrapped(milliseconds) ==
    LET seconds0 == milliseconds \div 1000
        ms       == milliseconds % 1000
        minutes0 == seconds0 \div 60
        seconds  == seconds0 % 60
        hours    == minutes0 \div 60
    IN  FormatD(hours, 2) \o <<":">> \o FormatD(minutes0, 2) \o <<":">>
        \o FormatD(seconds, 2) \o <<",">> \o FormatD(ms, 3)

format_time(milliseconds) ==
    LET seconds0 == milliseconds \div 1000
        ms       == milliseconds % 1000
        minutes0 == seconds0 \div 60
        seconds  == seconds0 % 60
        hours    == minutes0 \div 60
        minutes  == minutes0 % 60
    IN  FormatD(hours, 2) \o <<":">> \o FormatD(minutes, 2) \o <<":">>
        \o FormatD(seconds, 2) \o <<",">> \o FormatD(ms, 3)

(***************************************************************************)
(* format_transcription                                                    *)
(***************************************************************************)
\* first position >= i of s that holds no whitespace (Len(s)+1 if none)
SkipSpace(s, i) == Min({j \in i..(Len(s) + 1) : j > Len(s) \/ ~IsSpace(s[j])})

\* re.split(r'(?<=[.!?])\s+', s): cut at every whitespace run that directly
\* follows one of . ! ?
\* (i is where the piece being collected starts)
RECURSIVE SplitFrom(_, _)
SplitFrom(s, i) ==
    LET cuts == {j \in i..Len(s) : j > 1 /\ IsSpace(s[j]) /\ IsPunct(s[j - 1])}
    IN  IF cuts = {} THEN <<SubSeq(s, i, Len(s))>>
        ELSE <<SubSeq(s, i, Min(cuts) - 1)>> \o SplitFrom(s, SkipSpace(s, Min(cuts)))

SplitSentences(s) == SplitFrom(s, 1)

\* re.search(r'[.!?]\s*$', s)
EndsSentence(s) == LET t == rstrip(s) IN t # <<>> /\ IsPunct(t[Len(t)])

\* sentences[i] capitalised when it starts lowercase, for every i
CapitalizeAll(sentences) ==
    [k \in 1..Len(sentences) |-> Capitalize(sentences[k])]

\* textwrap: TextWrapper._munge_whitespace (every whitespace becomes a space)
MungeWhitespace(s) == [k \in 1..Len(s) |-> IF IsSpace(s[k]) THEN " " ELSE s[k]]

\* end of the run of characters of one kind (blank or not) that starts at i
RunEnd(s, i, blank) ==
    Min({j \in i..Len(s) : j = Len(s) \/ IsSpace(s[j + 1]) # blank})

\* textwrap: TextWrapper._split for text without hyphens or dashes:
\* alternating words and whitespace runs
RECURSIVE WordChunks(_, _)
WordChunks(s, i) ==
    IF i > Len(s) THEN <<>>
    ELSE LET e == RunEnd(s, i, IsSpace(s[i]))
         IN  <<SubSeq(s, i, e)>> \o WordChunks(s, e + 1)

\* how many leading chunks fit in the room that is left on the line
RECURSIVE FitCount(_, _)
FitCount(chunks, room) ==
    IF chunks # <<>> /\ Len(chunks[1]) <= room
    THEN 1 + FitCount(Tail(chunks), room - Len(chunks[1]))
    ELSE 0

RECURSIVE Concat(_)
Concat(parts) == IF parts = <<>> THEN <<>> ELSE parts[1] \o Concat(Tail(parts))

\* textwrap: TextWrapper._wrap_chunks with the defaults (drop_whitespace,
\* break_long_words, no indent, no max_lines)
RECURSIVE WrapChunks(_, _, _)
WrapChunks(chunks, lines, width) ==
    IF chunks = <<>> THEN lines
    ELSE LET c1   == IF IsBlank(chunks[1]) /\ lines # <<>> THEN Tail(chunks) ELSE chunks
             n    == FitCount(c1, width)
             cur0 == SubSeq(c1, 1, n)
             r0   == SubSeq(c1, n + 1, Len(c1))
             used == Len(Concat(cur0))
             long == r0 # <<>> /\ Len(r0[1]) > width
             cur1 == IF long THEN Append(cur0, SubSeq(r0[1], 1, width - used)) ELSE cur0
             r1   == IF long
                     THEN <<SubSeq(r0[1], width - used + 1, Len(r0[1]))>> \o Tail(r0)
                     ELSE r0
             cur2 == IF cur1 # <<>> /\ IsBlank(cur1[Len(cur1)])
                     THEN SubSeq(cur1, 1, Len(cur1) - 1)
                     ELSE cur1
         IN  WrapChunks(r1, IF cur2 # <<>> THEN Append(lines, Concat(cur2)) ELSE lines,
                        width)

\* textwrap.fill(text, width)
fill(text, width) ==
    join(<<"\n">>, WrapChunks(WordChunks(MungeWhitespace(text), 1), <<>>, width))

\* width=80 of the textwrap.fill call
WrapWidth == 80

\* (i + 1) % 4 == 0: a paragraph break after every 4th sentence
ParagraphEvery == 4

\* the paragraph loop: state is <<formatted_text, paragraph>>
RECURSIVE Paragraphs(_, _, _, _)
Paragraphs(sentences, i, formatted_text, paragraph) ==
    IF i > Len(sentences)
    THEN IF paragraph # <<>> THEN formatted_text \o strip(paragraph) ELSE formatted_text
    ELSE LET p == paragraph \o sentences[i] \o <<" ">>
         IN  IF i % ParagraphEvery = 0 \/ EndsSentence(sentences[i])
             THEN Paragraphs(sentences, i + 1,
                             formatted_text \o strip(p) \o <<"\n", "\n">>, <<>>)
             ELSE Paragraphs(sentences, i + 1, formatted_text, p)

format_transcription(text) ==
    IF text = <<>> THEN <<>>
    ELSE LET t1        == Capitalize(strip(text))
             sentences == CapitalizeAll(SplitSentences(t1))
             t2        == join(<<" ">>, sentences)
             wrapped   == fill(t2, WrapWidth)
         IN  Paragraphs(SplitSentences(wrapped), 1, <<>>, <<>>)

(***************************************************************************)
(* The subtitle file.                                                      *)
(***************************************************************************)
\* "No speech detected in the audio file."
Sentinel == <<"N","o"," ","s","p","e","e","c","h"," ","d","e","t","e","c","t","e","d",
              " ","i","n"," ","t","h","e"," ","a","u","d","i","o"," ","f","i","l","e",".">>

\* " --> "
Arrow == <<" ","-","-",">"," ">>

\* the three srt_file.write calls of one subtitle entry
SrtEntry(entry) ==
    Decimal(entry.index) \o <<"\n">>
    \o format_time(entry.start) \o Arrow \o format_time(entry.end) \o <<"\n">>
    \o entry.text \o <<"\n", "\n">>

\* the SRT file of the entries, in list order
SrtText(entries) == Concat([k \in 1..Len(entries) |-> SrtEntry(entries[k])])

\* "1\n00:00:00,000 --> 00:00:01,000\nNo speech detected in the audio file.\n"
SentinelSrt ==
    <<"1","\n","0","0",":","0","0",":","0","0",",","0","0","0">> \o Arrow
    \o <<"0","0",":","0","0",":","0","1",",","0","0","0","\n">> \o Sentinel \o <<"\n">>

(***************************************************************************)
(* The canonical signal and pydub's split_on_silence.                      *)
(* A signal is its length and its runs of sub-threshold energy, each a     *)
(* range [start, end) in milliseconds, in playback order.                  *)
(***************************************************************************)
min_silence_len(ct) == IF ct = "music" THEN 500 ELSE 700

keep_silence(ct) == IF ct = "music" THEN 500 ELSE 700

\* pydub detect_silence: the quiet runs that last at least min_silence_len
detect_silence(snd, minlen) ==
    SelectSeq(snd.quiet, LAMBDA q : q[2] - q[1] >= minlen)

\* pydub detect_nonsilent: what lies between the detected silences
detect_nonsilent(snd, minlen) ==
    LET sil == detect_silence(snd, minlen)
        n   == Len(sil)
    IN  IF sil = <<>> THEN << <<0, snd.len>> >>
        ELSE IF sil[1] = <<0, snd.len>> THEN <<>>
        ELSE LET body == [k \in 1..n |->
                             <<IF k = 1 THEN 0 ELSE sil[k - 1][2], sil[k][1]>>]
                 all  == IF sil[n][2] # snd.len
                         THEN Append(body, <<sil[n][2], snd.len>>)
                         ELSE body
             IN  IF all[1] = <<0, 0>> THEN Tail(all) ELSE all

\* the ranges padded by keep_silence on both sides
PaddedRanges(nonsilent, keep) ==
    [k \in 1..Len(nonsilent) |-> <<nonsilent[k][1] - keep, nonsilent[k][2] + keep>>]

\* two padded ranges that overlap meet in the middle of the overlap
MeetRanges(rs) ==
    [k \in 1..Len(rs) |->
        << IF k > 1 /\ rs[k][1] < rs[k - 1][2]
           THEN (rs[k - 1][2] + rs[k][1]) \div 2 ELSE rs[k][1],
           IF k < Len(rs) /\ rs[k + 1][1] < rs[k][2]
           THEN (rs[k][2] + rs[k + 1][1]) \div 2 ELSE rs[k][2] >>]

\* the slices audio_segment[max(start, 0) : min(end, len(audio_segment))]
split_on_silence(snd, minlen, keep) ==
    LET rs == MeetRanges(PaddedRanges(detect_nonsilent(snd, minlen), keep))
    IN  [k \in 1..Len(rs) |->
            [from |-> IF rs[k][1] > 0 THEN rs[k][1] ELSE 0,
             to   |-> IF rs[k][2] < snd.len THEN rs[k][2] ELSE snd.len]]

\* len(chunk), in milliseconds
ChunkLen(chunk) == chunk.to - chunk.from

(***************************************************************************)
(* Inputs of the model.                                                    *)
(***************************************************************************)
\* most speech bursts in one input signal
MaxBursts == 3

\* length of a speech burst, of the silence before the first burst and of
\* the silence between two bursts, in milliseconds
BurstLens == {1000}

LeadSilences == {0, 2000}

GapLens == {600, 2000}

\* the signal with silence lead, then one burst per element of bursts, the
\* k-th followed (but for the last) by the silence gaps[k]
RECURSIVE BurstStart(_, _, _, _)
BurstStart(lead, bursts, gaps, k) ==
    IF k = 1 THEN lead
    ELSE BurstStart(lead, bursts, gaps, k - 1) + bursts[k - 1] + gaps[k - 1]

MakeSignal(lead, bursts, gaps) ==
    LET n      == Len(bursts)
        end(k) == BurstStart(lead, bursts, gaps, k) + bursts[k]
    IN  [len   |-> IF n = 0 THEN lead ELSE end(n),
         quiet |-> (IF lead > 0 THEN << <<0, lead>> >> ELSE <<>>)
                   \o [k \in 1..(n - 1) |-> <<end(k), end(k) + gaps[k]>>]]

Signals ==
    {MakeSignal(lead, <<>>, <<>>) : lead \in LeadSilences \ {0}}
    \cup UNION {{MakeSignal(lead, bursts, gaps) :
                    lead \in LeadSilences,
                    bursts \in [1..n -> BurstLens],
                    gaps \in [1..(n - 1) -> GapLens]} : n \in 1..MaxBursts}

\* what the recognizer can return: a phrase, whitespace only, nothing
Phrase == <<"h","e","l","l","o"," ","t","h","e","r","e","."," ","h","o","w"," ","a","r","e"," ","y","o","u"," ","t","o","d","a","y">>

Texts == {Phrase, <<" ">>, <<>>}

RunIds == {1, 2}

Msg(text, n, e) == [text |-> text, n |-> n, e |-> e]

NoFile == [exists |-> FALSE, data |-> <<>>]

File(data) == [exists |-> TRUE, data |-> data]

NoAudio == [run |-> 0, seg |-> 0]

(***************************************************************************)
(* State.  The temp directory is shared by every run (it is a fixed name   *)
(* in the working directory); everything else is per run.                  *)
(***************************************************************************)
VARIABLES
    pc,               \* where each run is in transcribe_mp3_to_text_and_srt
    content_type,     \* the content_type argument
    has_callback,     \* whether update_callback was supplied
    status,           \* the messages handed to update_callback, in order
    sound,            \* the canonical signal
    chunks,           \* the slices split_on_silence returned
    i,                \* index of the chunk being processed
    current_position, start_time, end_time,
    audio,            \* what recognizer.record read from the chunk file
    segment_texts, subtitle_entries,
    listing,          \* the os.listdir names still to be removed
    result,           \* the return value: "none" while running
    exc,              \* the exception the outer handler caught, "" if none
    outcomes,         \* history: what the recognizer did for each chunk
    intervals,        \* history: <<start_time, end_time>> of each chunk
    temp_dir_exists,  \* os.path.isdir("temp_audio_chunks")
    temp_files,       \* chunk number -> audio stored in chunk<number>.wav
    txt_file, srt_file,   \* the files at output_txt_path, output_srt_path
    time_in, time_out,    \* argument and result of a format_time call
    full_text,            \* the string handed to format_transcription, if any
    input_file_var,       \* the MP3 File field of the window
    widget_state,         \* the state option of every button
    progress_bar,         \* "running" between start() and stop()
    log_text,             \* the lines of the Progress Log
    status_var,           \* what the status bar shows
    dialog,               \* the last message box shown
    worker,               \* the threads start_transcription has launched
    after_queue,          \* callbacks scheduled with root.after(0, ...)
    tcl_threaded          \* whether Tcl was built with thread support

runvars == <<content_type, has_callback, sound, chunks, i, current_position,
             start_time, end_time, audio, segment_texts, subtitle_entries,
             listing, outcomes, intervals>>

fsvars == <<temp_dir_exists, temp_files, txt_file, srt_file>>

timevars == <<time_in, time_out>>

\* the window state that only the handlers of the window touch
guivars == <<input_file_var, widget_state, progress_bar, dialog, worker,
             after_queue, tcl_threaded>>

\* the window state that update_log writes
logvars == <<log_text, status_var>>

pipevars == <<pc, status, result, exc, runvars, fsvars, timevars, full_text>>

vars == <<pipevars, guivars, logvars>>

(***************************************************************************)
(* The window: MP3TranscriberApp.  The widget tree is the one built by     *)
(* create_widgets; the labels, entries and combo boxes of input_frame are  *)
(* left out (none is a button and none is a child of the root window).     *)
(***************************************************************************)
WidgetParent ==
    [main_frame |-> "root", input_frame |-> "main_frame",
     browse_input_button |-> "input_frame", browse_output_button |-> "input_frame",
     log_frame |-> "main_frame", log_text |-> "log_frame",
     progress_bar |-> "log_frame", button_frame |-> "main_frame",
     start_button |-> "button_frame", exit_button |-> "button_frame",
     about_button |-> "button_frame", status_bar |-> "root"]

WidgetClass ==
    [main_frame |-> "ttk.Frame", input_frame |-> "ttk.LabelFrame",
     browse_input_button |-> "ttk.Button", browse_output_button |-> "ttk.Button",
     log_frame |-> "ttk.LabelFrame", log_text |-> "ScrolledText",
     progress_bar |-> "ttk.Progressbar", button_frame |-> "ttk.Frame",
     start_button |-> "ttk.Button", exit_button |-> "ttk.Button",
     about_button |-> "ttk.Button", status_bar |-> "ttk.Label"]

Widgets == DOMAIN WidgetParent

\* the direct children of a widget
winfo_children(w) == {c \in Widgets : WidgetParent[c] = w}

Buttons == {w \in Widgets : WidgetClass[w] = "ttk.Button"}

\* for widget in self.root.winfo_children():
\*     if isinstance(widget, ttk.Button): widget.config(state=st)
ConfigRootButtons(st) ==
    [b \in Buttons |-> IF b \in winfo_children("root") THEN st ELSE widget_state[b]]

\* the thread that runs root.mainloop(); worker r is thread r
MainThread == 0

\* where the Tcl commands of a widget call made by thread t are executed:
\* a threaded Tcl hands the call of another thread to the interpreter's
\* thread, a Tcl without threads executes it in the caller
ExecThread(t) == IF t = MainThread \/ tcl_threaded THEN MainThread ELSE t

LogLine(m, t) ==
    [text |-> m.text, n |-> m.n, e |-> m.e, caller |-> t, thread |-> ExecThread(t)]

\* update_log(m) called by thread t for every m of msgs: the log after it.
\* The log is kept as the set of its lines: the order in which the lines of
\* two threads fall is left out.
update_log(lines, msgs, t) ==
    lines \cup {LogLine(msgs[k], t) : k \in 1..Len(msgs)}

InputFiles == {"a.mp3", "b.mp3"}

\* splitext(basename(input_file))[0]
base_name(f) == IF f = "a.mp3" THEN "a" ELSE "b"

\* what AudioSegment.from_mp3 reads from each of the files
FileSignal(f) ==
    IF f = "a.mp3" THEN MakeSignal(0, <<1000>>, <<>>)
    ELSE MakeSignal(0, <<1000, 1000>>, <<2000>>)

NoWorker == [state |-> "unstarted", input_file |-> "", output_txt_path |-> <<>>,
             output_srt_path |-> <<>>]

\* the window as MP3TranscriberApp.__init__ leaves it
InitApp ==
    /\ input_file_var = ""
    /\ widget_state = [b \in Buttons |-> "normal"]
    /\ progress_bar = "stopped"
    /\ log_text = {}
    /\ status_var = LogLine(Msg("Ready", 0, ""), MainThread)
    /\ dialog = "none"
    /\ worker = [r \in RunIds |-> NoWorker]
    /\ after_queue = <<>>

\* no run has been called yet, and the temp directory does not exist
InitRuns ==
    /\ pc = [r \in RunIds |-> "idle"]
    /\ content_type = [r \in RunIds |-> "talk"]
    /\ has_callback = [r \in RunIds |-> FALSE]
    /\ status = [r \in RunIds |-> <<>>]
    /\ sound = [r \in RunIds |-> [len |-> 0, quiet |-> <<>>]]
    /\ chunks = [r \in RunIds |-> <<>>]
    /\ i = [r \in RunIds |-> -1]
    /\ current_position = [r \in RunIds |-> 0]
    /\ start_time = [r \in RunIds |-> 0]
    /\ end_time = [r \in RunIds |-> 0]
    /\ audio = [r \in RunIds |-> NoAudio]
    /\ segment_texts = [r \in RunIds |-> <<>>]
    /\ subtitle_entries = [r \in RunIds |-> <<>>]
    /\ listing = [r \in RunIds |-> {}]
    /\ result = [r \in RunIds |-> "none"]
    /\ exc = [r \in RunIds |-> ""]
    /\ outcomes = [r \in RunIds |-> <<>>]
    /\ intervals = [r \in RunIds |-> <<>>]
    /\ temp_dir_exists = FALSE
    /\ temp_files = <<>>
    /\ txt_file = [r \in RunIds |-> NoFile]
    /\ srt_file = [r \in RunIds |-> NoFile]
    /\ full_text = [r \in RunIds |-> [called |-> FALSE, text |-> <<>>]]

Init ==
    /\ InitRuns
    /\ InitApp
    /\ tcl_threaded = FALSE
    /\ time_in = 0
    /\ time_out = <<>>

\* update_callback(m) for every m of msgs, when a callback was supplied
Emit(r, msgs) ==
    IF has_callback[r] THEN [status EXCEPT ![r] = @ \o msgs] ELSE status

Goto(r, label) == pc' = [pc EXCEPT ![r] = label]

\* what the update_callback calls of a step do on the caller's side: a run
\* launched by the window has self.update_log as its callback, which runs in
\* the thread of the run
Callback(r) ==
    LET new == SubSeq(status'[r], Len(status[r]) + 1, Len(status'[r]))
    IN  IF worker[r].state = "running" /\ new # <<>>
        THEN /\ log_text' = update_log(log_text, new, r)
             /\ status_var' = LogLine(new[Len(new)], r)
        ELSE UNCHANGED logvars

\* the outer handler reporting the exception and then returning True
Raise_ReturnsTrue(r, e, msgs) ==
    /\ status' = Emit(r, msgs \o <<Msg("Error during transcription", 0, e)>>)
    /\ result' = [result EXCEPT ![r] = "True"]
    /\ exc' = [exc EXCEPT ![r] = e]
    /\ Goto(r, "done")

\* the outer handler: an exception e, raised after the messages msgs were
\* sent, is reported and the run returns False
Raise(r, e, msgs) ==
    /\ status' = Emit(r, msgs \o <<Msg("Error during transcription", 0, e)>>)
    /\ result' = [result EXCEPT ![r] = "False"]
    /\ exc' = [exc EXCEPT ![r] = e]
    /\ Goto(r, "done")

(***************************************************************************)
(* transcribe_mp3_to_text_and_srt, one action per step of the function.    *)
(***************************************************************************)
\* the call: the three opening status messages
Call(r, ct, cb) ==
    /\ pc[r] = "idle"
    /\ content_type' = [content_type EXCEPT ![r] = ct]
    /\ has_callback' = [has_callback EXCEPT ![r] = cb]
    /\ status' = [status EXCEPT ![r] =
                    IF cb THEN <<Msg("Processing MP3 file", 0, ""),
                                 Msg("Selected language", 0, ""),
                                 Msg("Content type", 0, "")>>
                    ELSE <<>>]
    /\ Goto(r, "load")
    /\ UNCHANGED <<result, exc, sound, chunks, i, current_position, start_time,
                   end_time, audio, segment_texts, subtitle_entries, listing,
                   outcomes, intervals, fsvars, timevars, guivars, full_text>>
    /\ Callback(r)

\* AudioSegment.from_file, set_channels, set_frame_rate, normalize
Load(r, snd) ==
    /\ pc[r] = "load"
    /\ sound' = [sound EXCEPT ![r] = snd]
    /\ status' = Emit(r, <<Msg("Loading audio file...", 0, "")>>)
    /\ Goto(r, "split")
    /\ UNCHANGED <<result, exc, content_type, has_callback, chunks, i,
                   current_position, start_time, end_time, audio, segment_texts,
                   subtitle_entries, listing, outcomes, intervals, fsvars, timevars, guivars, full_text>>
    /\ Callback(r)

\* the source cannot be decoded
LoadFail(r) ==
    /\ pc[r] = "load"
    /\ Raise(r, "DecodeError", <<Msg("Loading audio file...", 0, "")>>)
    /\ UNCHANGED <<runvars, fsvars, timevars, guivars, full_text>>
    /\ Callback(r)

\* split_on_silence with the parameters of the content type
Split(r) ==
    /\ pc[r] = "split"
    /\ chunks' = [chunks EXCEPT ![r] =
                    split_on_silence(sound[r], min_silence_len(content_type[r]),
                                     keep_silence(content_type[r]))]
    /\ status' = Emit(r, <<Msg("Splitting audio on silence", 0, "")>>)
    /\ Goto(r, "isdir")
    /\ UNCHANGED <<result, exc, content_type, has_callback, sound, i,
                   current_position, start_time, end_time, audio, segment_texts,
                   subtitle_entries, listing, outcomes, intervals, fsvars, timevars, guivars, full_text>>
    /\ Callback(r)

\* split_on_silence raises
SplitFail(r) ==
    /\ pc[r] = "split"
    /\ Raise(r, "SplitError", <<Msg("Splitting audio on silence", 0, "")>>)
    /\ UNCHANGED <<runvars, fsvars, timevars, guivars, full_text>>
    /\ Callback(r)

\* if not os.path.isdir(temp_dir)
IsDir(r) ==
    /\ pc[r] = "isdir"
    /\ Goto(r, IF temp_dir_exists THEN "recognizer" ELSE "mkdir")
    /\ UNCHANGED <<status, result, exc, runvars, fsvars, timevars, guivars, full_text>>
    /\ Callback(r)

\* os.mkdir(temp_dir): FileExistsError when the directory appeared meanwhile
Mkdir(r) ==
    /\ pc[r] = "mkdir"
    /\ IF temp_dir_exists
       THEN /\ Raise(r, "FileExistsError", <<>>)
            /\ UNCHANGED temp_dir_exists
       ELSE /\ temp_dir_exists' = TRUE
            /\ Goto(r, "recognizer")
            /\ UNCHANGED <<status, result, exc>>
    /\ UNCHANGED <<runvars, temp_files, txt_file, srt_file, timevars, guivars, full_text>>
    /\ Callback(r)

\* sr.Recognizer(), the empty lists, the time cursor, "Processing N ..."
Setup(r) ==
    /\ pc[r] = "recognizer"
    /\ segment_texts' = [segment_texts EXCEPT ![r] = <<>>]
    /\ subtitle_entries' = [subtitle_entries EXCEPT ![r] = <<>>]
    /\ current_position' = [current_position EXCEPT ![r] = 0]
    /\ status' = Emit(r, <<Msg("Processing audio segments", Len(chunks[r]), "")>>)
    /\ Goto(r, "for")
    /\ UNCHANGED <<result, exc, content_type, has_callback, sound, chunks, i,
                   start_time, end_time, audio, listing, outcomes, intervals,
                   fsvars, timevars, guivars, full_text>>
    /\ Callback(r)

\* ForNext with the time cursor left where it was
ForNext_CursorStuck(r) ==
    /\ pc[r] = "for"
    /\ i[r] + 1 < Len(chunks[r])
    /\ LET start    == current_position[r]
           duration == ChunkLen(chunks[r][i[r] + 2])
       IN  /\ start_time' = [start_time EXCEPT ![r] = start]
           /\ end_time' = [end_time EXCEPT ![r] = start + duration]
           /\ current_position' = [current_position EXCEPT ![r] = start]
           /\ intervals' = [intervals EXCEPT ![r] = Append(@, <<start, start + duration>>)]
    /\ i' = [i EXCEPT ![r] = @ + 1]
    /\ Goto(r, "export")
    /\ UNCHANGED <<status, result, exc, content_type, has_callback, sound, chunks,
                   audio, segment_texts, subtitle_entries, listing, outcomes,
                   fsvars, timevars, guivars, full_text>>
    /\ Callback(r)

\* the head of the for loop: the next chunk and its timing
ForNext(r) ==
    /\ pc[r] = "for"
    /\ i[r] + 1 < Len(chunks[r])
    /\ LET start    == current_position[r]
           duration == ChunkLen(chunks[r][i[r] + 2])
       IN  /\ start_time' = [start_time EXCEPT ![r] = start]
           /\ end_time' = [end_time EXCEPT ![r] = start + duration]
           /\ current_position' = [current_position EXCEPT ![r] = start + duration]
           /\ intervals' = [intervals EXCEPT ![r] = Append(@, <<start, start + duration>>)]
    /\ i' = [i EXCEPT ![r] = @ + 1]
    /\ Goto(r, "export")
    /\ UNCHANGED <<status, result, exc, content_type, has_callback, sound, chunks,
                   audio, segment_texts, subtitle_entries, listing, outcomes,
                   fsvars, timevars, guivars, full_text>>
    /\ Callback(r)

\* the loop is exhausted
ForEnd(r) ==
    /\ pc[r] = "for"
    /\ i[r] + 1 >= Len(chunks[r])
    /\ Goto(r, "write_txt")
    /\ UNCHANGED <<status, result, exc, runvars, fsvars, timevars, guivars, full_text>>
    /\ Callback(r)

\* chunk.export(chunk_filename): writes temp_audio_chunks/chunk<i>.wav
Export(r) ==
    /\ pc[r] = "export"
    /\ IF temp_dir_exists
       THEN /\ temp_files' = (i[r] :> [run |-> r, seg |-> i[r] + 1]) @@ temp_files
            /\ Goto(r, "record")
            /\ UNCHANGED <<status, result, exc>>
       ELSE /\ Raise(r, "FileNotFoundError", <<>>)
            /\ UNCHANGED temp_files
    /\ UNCHANGED <<runvars, temp_dir_exists, txt_file, srt_file, timevars, guivars, full_text>>
    /\ Callback(r)

\* the export fails (disk full, no permission)
ExportFail(r) ==
    /\ pc[r] = "export"
    /\ temp_dir_exists
    /\ Raise(r, "OSError", <<>>)
    /\ UNCHANGED <<runvars, fsvars, timevars, guivars, full_text>>
    /\ Callback(r)

\* with sr.AudioFile(chunk_filename) as source: audio = recognizer.record(source)
Record(r) ==
    /\ pc[r] = "record"
    /\ IF i[r] \in DOMAIN temp_files
       THEN /\ audio' = [audio EXCEPT ![r] = temp_files[i[r]]]
            /\ Goto(r, "recognize")
            /\ UNCHANGED <<status, result, exc>>
       ELSE /\ Raise(r, "FileNotFoundError", <<>>)
            /\ UNCHANGED audio
    /\ UNCHANGED <<content_type, has_callback, sound, chunks, i, current_position,
                   start_time, end_time, segment_texts, subtitle_entries, listing,
                   outcomes, intervals, fsvars, timevars, guivars, full_text>>
    /\ Callback(r)

\* what the three ways out of recognize_google leave unchanged
RecognizeFrame(r) ==
    /\ pc[r] = "recognize"
    /\ Goto(r, "for")
    /\ UNCHANGED <<result, exc, content_type, has_callback, sound, chunks, i,
                   current_position, start_time, end_time, audio, listing,
                   intervals, fsvars, timevars, guivars, full_text>>

\* RecognizeText with the entries numbered 1, 2, 3, ... as they are collected
RecognizeText_Renumbered(r, text) ==
    /\ RecognizeFrame(r)
    /\ IF text # <<>>
       THEN /\ segment_texts' = [segment_texts EXCEPT ![r] = Append(@, text)]
            /\ subtitle_entries' = [subtitle_entries EXCEPT ![r] =
                   Append(@, [index |-> Len(@) + 1, start |-> start_time[r],
                              end |-> end_time[r], text |-> text])]
            /\ status' = Emit(r, <<Msg("Transcribed successfully", i[r] + 1, "")>>)
       ELSE UNCHANGED <<segment_texts, subtitle_entries, status>>
    /\ outcomes' = [outcomes EXCEPT ![r] =
           Append(@, [kind |-> IF text # <<>> THEN "Recognized" ELSE "NoSpeechDetected",
                      text |-> text, raised |-> ""])]
    /\ Callback(r)

\* RecognizeText without the "if text" test: an empty text is kept too
RecognizeText_KeepsEmpty(r, text) ==
    /\ RecognizeFrame(r)
    /\ segment_texts' = [segment_texts EXCEPT ![r] = Append(@, text)]
    /\ subtitle_entries' = [subtitle_entries EXCEPT ![r] =
           Append(@, [index |-> i[r] + 1, start |-> start_time[r],
                      end |-> end_time[r], text |-> text])]
    /\ status' = Emit(r, <<Msg("Transcribed successfully", i[r] + 1, "")>>)
    /\ outcomes' = [outcomes EXCEPT ![r] =
           Append(@, [kind |-> IF text # <<>> THEN "Recognized" ELSE "NoSpeechDetected",
                      text |-> text, raised |-> ""])]
    /\ Callback(r)

\* recognize_google returns text: kept when it is not the empty string
RecognizeText(r, text) ==
    /\ RecognizeFrame(r)
    /\ IF text # <<>>
       THEN /\ segment_texts' = [segment_texts EXCEPT ![r] = Append(@, text)]
            /\ subtitle_entries' = [subtitle_entries EXCEPT ![r] =
                   Append(@, [index |-> i[r] + 1, start |-> start_time[r],
                              end |-> end_time[r], text |-> text])]
            /\ status' = Emit(r, <<Msg("Transcribed successfully", i[r] + 1, "")>>)
       ELSE UNCHANGED <<segment_texts, subtitle_entries, status>>
    /\ outcomes' = [outcomes EXCEPT ![r] =
           Append(@, [kind |-> IF text # <<>> THEN "Recognized" ELSE "NoSpeechDetected",
                      text |-> text, raised |-> ""])]
    /\ Callback(r)

\* recognize_google raises sr.UnknownValueError
RecognizeUnknown(r) ==
    /\ RecognizeFrame(r)
    /\ status' = Emit(r, <<Msg("Could not understand audio", i[r] + 1, "")>>)
    /\ outcomes' = [outcomes EXCEPT ![r] =
           Append(@, [kind |-> "NoSpeechDetected", text |-> <<>>,
                      raised |-> "UnknownValueError"])]
    /\ UNCHANGED <<segment_texts, subtitle_entries>>
    /\ Callback(r)

\* RecognizeError without the inner "except Exception": the exception
\* reaches the outer handler
RecognizeError_Propagates(r) ==
    /\ pc[r] = "recognize"
    /\ Raise(r, "RequestError", <<>>)
    /\ outcomes' = [outcomes EXCEPT ![r] =
           Append(@, [kind |-> "Failed", text |-> <<>>, raised |-> "RequestError"])]
    /\ UNCHANGED <<content_type, has_callback, sound, chunks, i, current_position,
                   start_time, end_time, audio, segment_texts, subtitle_entries,
                   listing, intervals, fsvars, timevars, guivars, full_text>>
    /\ Callback(r)

\* recognize_google raises any other exception (sr.RequestError, ...)
RecognizeError(r) ==
    /\ RecognizeFrame(r)
    /\ status' = Emit(r, <<Msg("Error", i[r] + 1, "RequestError")>>)
    /\ outcomes' = [outcomes EXCEPT ![r] =
           Append(@, [kind |-> "Failed", text |-> <<>>, raised |-> "RequestError"])]
    /\ UNCHANGED <<segment_texts, subtitle_entries>>
    /\ Callback(r)

\* full_text = " ".join(segment_texts), computed only when there are texts
FormatterInput(r) ==
    IF segment_texts[r] # <<>>
    THEN [called |-> TRUE, text |-> join(<<" ">>, segment_texts[r])]
    ELSE full_text[r]

\* WriteTxt without the else branch: the formatted text, whatever it is
WriteTxt_NoSentinel(r) ==
    /\ pc[r] = "write_txt"
    /\ full_text' = [full_text EXCEPT ![r] = FormatterInput(r)]
    /\ txt_file' = [txt_file EXCEPT ![r] =
           File(format_transcription(join(<<" ">>, segment_texts[r])))]
    /\ Goto(r, "write_srt")
    /\ UNCHANGED <<status, result, exc, runvars, temp_dir_exists, temp_files,
                   srt_file, timevars, guivars>>
    /\ Callback(r)

\* the transcript file: the formatted text, or the sentinel
WriteTxt(r) ==
    /\ pc[r] = "write_txt"
    /\ full_text' = [full_text EXCEPT ![r] = FormatterInput(r)]
    /\ txt_file' = [txt_file EXCEPT ![r] =
           IF segment_texts[r] # <<>>
           THEN File(format_transcription(join(<<" ">>, segment_texts[r])))
           ELSE File(Sentinel)]
    /\ Goto(r, "write_srt")
    /\ UNCHANGED <<status, result, exc, runvars, temp_dir_exists, temp_files,
                   srt_file, timevars, guivars>>
    /\ Callback(r)

\* open(output_txt_path, "w") or the write raises (the text was joined and
\* formatted before the file is opened)
WriteTxtFail(r) ==
    /\ pc[r] = "write_txt"
    /\ full_text' = [full_text EXCEPT ![r] = FormatterInput(r)]
    /\ Raise(r, "IOError", <<>>)
    /\ UNCHANGED <<runvars, fsvars, timevars, guivars>>
    /\ Callback(r)

\* the subtitle file: one block per entry, or the sentinel entry
WriteSrt(r) ==
    /\ pc[r] = "write_srt"
    /\ srt_file' = [srt_file EXCEPT ![r] =
           IF segment_texts[r] # <<>>
           THEN File(SrtText(subtitle_entries[r]))
           ELSE File(SentinelSrt)]
    /\ status' = Emit(r, IF segment_texts[r] # <<>>
                         THEN <<Msg("SRT file saved to", 0, ""),
                                Msg("Text file saved to", 0, "")>>
                         ELSE <<Msg("No speech detected in the audio file.", 0, "")>>)
    /\ Goto(r, "listdir")
    /\ UNCHANGED <<result, exc, runvars, temp_dir_exists, temp_files, txt_file,
                   timevars, guivars, full_text>>
    /\ Callback(r)

\* open(output_srt_path, "w") or a write raises
WriteSrtFail(r) ==
    /\ pc[r] = "write_srt"
    /\ Raise(r, "IOError", <<>>)
    /\ UNCHANGED <<runvars, fsvars, timevars, guivars, full_text>>
    /\ Callback(r)

\* for file in os.listdir(temp_dir)
ListDir(r) ==
    /\ pc[r] = "listdir"
    /\ IF temp_dir_exists
       THEN /\ listing' = [listing EXCEPT ![r] = DOMAIN temp_files]
            /\ Goto(r, "remove")
            /\ UNCHANGED <<status, result, exc>>
       ELSE /\ Raise(r, "FileNotFoundError", <<>>)
            /\ UNCHANGED listing
    /\ UNCHANGED <<content_type, has_callback, sound, chunks, i, current_position,
                   start_time, end_time, audio, segment_texts, subtitle_entries,
                   outcomes, intervals, fsvars, timevars, guivars, full_text>>
    /\ Callback(r)

\* os.remove of the next listed file
Remove(r) ==
    /\ pc[r] = "remove"
    /\ listing[r] # {}
    /\ LET f == Min(listing[r])
       IN  IF f \in DOMAIN temp_files
           THEN /\ temp_files' = [g \in DOMAIN temp_files \ {f} |-> temp_files[g]]
                /\ listing' = [listing EXCEPT ![r] = @ \ {f}]
                /\ UNCHANGED <<pc, status, result, exc>>
           ELSE /\ Raise(r, "FileNotFoundError", <<>>)
                /\ UNCHANGED <<temp_files, listing>>
    /\ UNCHANGED <<content_type, has_callback, sound, chunks, i, current_position,
                   start_time, end_time, audio, segment_texts, subtitle_entries,
                   outcomes, intervals, temp_dir_exists, txt_file, srt_file, timevars, guivars, full_text>>
    /\ Callback(r)

\* os.rmdir(temp_dir), "Transcription complete!", return True
Rmdir(r) ==
    /\ pc[r] = "remove"
    /\ listing[r] = {}
    /\ IF temp_dir_exists /\ DOMAIN temp_files = {}
       THEN /\ temp_dir_exists' = FALSE
            /\ status' = Emit(r, <<Msg("Transcription complete!", 0, "")>>)
            /\ result' = [result EXCEPT ![r] = "True"]
            /\ Goto(r, "done")
            /\ UNCHANGED exc
       ELSE /\ Raise(r, "OSError", <<>>)
            /\ UNCHANGED temp_dir_exists
    /\ UNCHANGED <<runvars, temp_files, txt_file, srt_file, timevars, guivars, full_text>>
    /\ Callback(r)

(***************************************************************************)
(* One run, with every fault of its environment.                           *)
(***************************************************************************)
Next ==
    \E r \in {1} :
        \/ \E ct \in {"talk", "music"}, cb \in BOOLEAN : Call(r, ct, cb)
        \/ \E snd \in Signals : Load(r, snd)
        \/ LoadFail(r)
        \/ Split(r)
        \/ SplitFail(r)
        \/ IsDir(r)
        \/ Mkdir(r)
        \/ Setup(r)
        \/ ForNext(r)
        \/ ForEnd(r)
        \/ Export(r)
        \/ ExportFail(r)
        \/ Record(r)
        \/ \E text \in Texts : RecognizeText(r, text)
        \/ RecognizeUnknown(r)
        \/ RecognizeError(r)
        \/ WriteTxt(r)
        \/ WriteTxtFail(r)
        \/ WriteSrt(r)
        \/ WriteSrtFail(r)
        \/ ListDir(r)
        \/ Remove(r)
        \/ Rmdir(r)

Spec == Init /\ [][Next]_vars

(***************************************************************************)
(* Two runs at once, as two threads or two processes in one working        *)
(* directory, each with its own output paths; no fault but what the runs   *)
(* do to each other.                                                       *)
(***************************************************************************)
ConcSignals == {MakeSignal(0, <<1000>>, <<>>), MakeSignal(0, <<1000, 1000>>, <<2000>>)}

NextConc ==
    \E r \in RunIds :
        \/ Call(r, "talk", FALSE)
        \/ \E snd \in ConcSignals : Load(r, snd)
        \/ Split(r)
        \/ IsDir(r)
        \/ Mkdir(r)
        \/ Setup(r)
        \/ ForNext(r)
        \/ ForEnd(r)
        \/ Export(r)
        \/ Record(r)
        \/ RecognizeText(r, Phrase)
        \/ WriteTxt(r)
        \/ WriteSrt(r)
        \/ ListDir(r)
        \/ Remove(r)
        \/ Rmdir(r)

SpecConc == Init /\ [][NextConc]_vars

(***************************************************************************)
(* format_time alone, on millisecond counts around every field boundary.   *)
(***************************************************************************)
\* every count from 0 up to this one is tried as well
MaxSmallMs == 20

TimeInputs ==
    (0..MaxSmallMs)
    \cup {h * 3600000 + m * 60000 + sec * 1000 + ms :
             h \in {0, 1, 99, 100}, m \in {0, 1, 59},
             sec \in {0, 1, 59}, ms \in {0, 1, 500, 999}}

InitTime ==
    /\ InitRuns
    /\ InitApp
    /\ tcl_threaded = FALSE
    /\ time_in \in TimeInputs
    /\ time_out = <<>>

FormatTime ==
    /\ time_out = <<>>
    /\ time_out' = format_time(time_in)
    /\ UNCHANGED <<pc, status, result, exc, runvars, fsvars, time_in, full_text,
                   guivars, logvars>>

NextTime == FormatTime

SpecTime == InitTime /\ [][NextTime]_vars

(***************************************************************************)
(* The window in use: the handlers of the buttons run one at a time in     *)
(* the thread of root.mainloop(); every launched thread runs the pipeline  *)
(* step by step, with self.update_log as its callback.                     *)
(***************************************************************************)
InitGui ==
    /\ InitRuns
    /\ InitApp
    /\ tcl_threaded \in BOOLEAN
    /\ time_in = 0
    /\ time_out = <<>>

\* browse_input_file, with a file chosen in the dialog
BrowseInputFile(f) ==
    /\ input_file_var' = f
    /\ UNCHANGED <<widget_state, progress_bar, dialog, worker, after_queue,
                   tcl_threaded, logvars, pipevars>>

\* a click on Start Transcription (a disabled button takes no click)
StartTranscription ==
    /\ widget_state["start_button"] = "normal"
    /\ IF input_file_var = ""
       THEN /\ dialog' = "Please select an MP3 file."
            /\ UNCHANGED <<widget_state, progress_bar, worker, logvars>>
       ELSE /\ \E r \in RunIds :
                /\ worker[r].state = "unstarted"
                /\ \A q \in RunIds : worker[q].state = "unstarted" => r <= q
                /\ worker' = [worker EXCEPT ![r] =
                       [state |-> "running", input_file |-> input_file_var,
                        output_txt_path |-> <<base_name(input_file_var), ".txt">>,
                        output_srt_path |-> <<base_name(input_file_var), ".srt">>]]
            /\ progress_bar' = "running"
            /\ widget_state' = ConfigRootButtons("disabled")
            /\ log_text' = update_log({},
                   <<Msg("Starting transcription process...", 0, ""),
                     Msg("Input file", 0, ""), Msg("Output directory", 0, ""),
                     Msg("Selected language", 0, ""), Msg("Content type", 0, "")>>,
                   MainThread)
            /\ status_var' = LogLine(Msg("Content type", 0, ""), MainThread)
            /\ UNCHANGED dialog
    /\ UNCHANGED <<input_file_var, after_queue, tcl_threaded, pipevars>>

\* run_transcription_thread after the pipeline has returned
ScheduleComplete(r) ==
    /\ worker[r].state = "running"
    /\ pc[r] = "done"
    /\ after_queue' = Append(after_queue,
           [fn |-> "transcription_complete", run |-> r, success |-> result[r] = "True"])
    /\ worker' = [worker EXCEPT ![r].state = "returned"]
    /\ UNCHANGED <<input_file_var, widget_state, progress_bar, dialog, tcl_threaded,
                   logvars, pipevars>>

\* the main loop runs the first scheduled callback: transcription_complete
TranscriptionComplete ==
    /\ after_queue # <<>>
    /\ LET cb  == Head(after_queue)
           msg == IF cb.success
                  THEN Msg("Transcription completed successfully!", 0, "")
                  ELSE Msg("Transcription failed. See log for details.", 0, "")
       IN  /\ after_queue' = Tail(after_queue)
           /\ progress_bar' = "stopped"
           /\ widget_state' = ConfigRootButtons("normal")
           /\ log_text' = update_log(log_text, <<msg>>, MainThread)
           /\ status_var' = LogLine(Msg(IF cb.success THEN "Ready - Transcription complete"
                                        ELSE "Ready - Transcription failed", 0, ""),
                                    MainThread)
           /\ dialog' = IF cb.success THEN "Transcription Complete" ELSE "Error"
           /\ worker' = [worker EXCEPT ![cb.run].state = "complete"]
    /\ UNCHANGED <<input_file_var, tcl_threaded, pipevars>>

NextGui ==
    \/ \E f \in InputFiles : BrowseInputFile(f)
    \/ StartTranscription
    \/ TranscriptionComplete
    \/ \E r \in RunIds :
        \/ worker[r].state = "running" /\ Call(r, "talk", TRUE)
        \/ Load(r, FileSignal(worker[r].input_file))
        \/ LoadFail(r)
        \/ Split(r)
        \/ IsDir(r)
        \/ Mkdir(r)
        \/ Setup(r)
        \/ ForNext(r)
        \/ ForEnd(r)
        \/ Export(r)
        \/ Record(r)
        \/ RecognizeText(r, Phrase)
        \/ WriteTxt(r)
        \/ WriteSrt(r)
        \/ ListDir(r)
        \/ Remove(r)
        \/ Rmdir(r)
        \/ ScheduleComplete(r)

SpecGui == InitGui /\ [][NextGui]_vars
(***************************************************************************)
(* What the outputs of a run should be, computed from the history of the   *)
(* run (the chunks and what the recognizer did for each).                  *)
(***************************************************************************)
\* d_1 + ... + d_n of the chunk durations of run r
RECURSIVE DurationSum(_, _)
DurationSum(r, n) ==
    IF n = 0 THEN 0 ELSE DurationSum(r, n - 1) + (chunks[r][n].to - chunks[r][n].from)

\* the ordinals (1-based) of the segments of run r that were Recognized
RecognizedOrdinals(r) ==
    {k \in 1..Len(outcomes[r]) : outcomes[r][k].kind = "Recognized"}

RECURSIVE Ascending(_)
Ascending(S) == IF S = {} THEN <<>> ELSE <<Min(S)>> \o Ascending(S \ {Min(S)})

\* the lines of a text: text.split("\n")
RECURSIVE LinesFrom(_, _)
LinesFrom(s, from) ==
    LET nl == {j \in from..Len(s) : s[j] = "\n"}
    IN  IF nl = {} THEN <<SubSeq(s, from, Len(s))>>
        ELSE <<SubSeq(s, from, Min(nl) - 1)>> \o LinesFrom(s, Min(nl) + 1)

Lines(s) == LinesFrom(s, 1)

\* the kinds of the outcomes of run r, in segment order
Kinds(r) == [k \in 1..Len(outcomes[r]) |-> outcomes[r][k].kind]

\* run r returned without any exception reaching the outer handler
Returned(r) == pc[r] = "done" /\ exc[r] = ""

(***************************************************************************)
(* C1: a service error of the recognizer for one segment does not abort    *)
(* the run: the exception never reaches the outer handler, the later       *)
(* segments are processed, a run that meets no other fault returns True,   *)
(* and the outputs hold every Recognized segment: the subtitle file has    *)
(* one block per Recognized segment under its own ordinal (for Recognized, *)
(* Failed, Recognized: exactly two blocks, numbered 1 and 3) and the       *)
(* transcript is the formatted join of the Recognized texts only.          *)
(***************************************************************************)
C1_PartialFailureKept ==
    \A r \in RunIds :
        (\E k \in 1..Len(outcomes[r]) : outcomes[r][k].kind = "Failed") =>
            LET ords  == Ascending(RecognizedOrdinals(r))
                texts == [k \in 1..Len(ords) |-> outcomes[r][ords[k]].text]
                srt   == Lines(srt_file[r].data)
            IN  /\ exc[r] # "RequestError"
                /\ segment_texts[r] = texts
                /\ Len(subtitle_entries[r]) = Len(ords)
                /\ Returned(r) =>
                       /\ result[r] = "True"
                       /\ Len(outcomes[r]) = Len(chunks[r])
                       /\ txt_file[r].exists /\ srt_file[r].exists
                       /\ ords # <<>> =>
                              /\ txt_file[r].data = format_transcription(join(<<" ">>, texts))
                              /\ Len(srt) = 4 * Len(ords) + 1
                              /\ \A k \in 1..Len(ords) :
                                     /\ srt[4 * k - 3] = Decimal(ords[k])
                                     /\ srt[4 * k - 1] = texts[k]
                                     /\ srt[4 * k] = <<>>
                       /\ Kinds(r) = <<"Recognized", "Failed", "Recognized">> =>
                              /\ Len(srt) = 9
                              /\ srt[1] = <<"1">> /\ srt[5] = <<"3">>
                              /\ srt[3] = outcomes[r][1].text
                              /\ srt[7] = outcomes[r][3].text

C1_Witness ==
    /\ pc[1] = "done" /\ result[1] = "True"
    /\ Kinds(1) = <<"Recognized", "Failed", "Recognized">>
    /\ Len(subtitle_entries[1]) = 2

(***************************************************************************)
(* C2: the interval of segment i is [d_1+...+d_(i-1), d_1+...+d_i): the    *)
(* first starts at 0, each starts where the one before ended, the cursor   *)
(* has advanced by the duration of every segment processed so far whatever *)
(* its outcome, and every subtitle entry carries the interval of its own   *)
(* segment.                                                                *)
(***************************************************************************)
C2_CumulativeIntervals ==
    \A r \in RunIds :
        /\ Len(intervals[r]) = i[r] + 1
        /\ \A k \in 1..Len(intervals[r]) :
               /\ intervals[r][k] = <<DurationSum(r, k - 1), DurationSum(r, k)>>
               /\ k = 1 => intervals[r][k][1] = 0
               /\ k > 1 => intervals[r][k][1] = intervals[r][k - 1][2]
        /\ current_position[r] = DurationSum(r, Len(intervals[r]))
        /\ \A k \in 1..Len(subtitle_entries[r]) :
               LET e == subtitle_entries[r][k]
               IN  /\ e.start = DurationSum(r, e.index - 1)
                   /\ e.end = DurationSum(r, e.index)

C2_Witness ==
    /\ Len(outcomes[1]) = 3
    /\ outcomes[1][1].kind = "NoSpeechDetected"
    /\ outcomes[1][2].kind = "Failed"
    /\ outcomes[1][3].kind = "Recognized"
    /\ subtitle_entries[1][1].start = DurationSum(1, 2)
    /\ subtitle_entries[1][1].start > 0

(***************************************************************************)
(* C3: the indices of the subtitle entries collected so far are exactly    *)
(* the ordinals of the Recognized segments, in ascending order: strictly   *)
(* increasing, within 1..N, each the ordinal of the segment the entry's    *)
(* text came from, never renumbered; the subtitle file numbers its blocks  *)
(* with them.                                                              *)
(***************************************************************************)
C3_EntryOrdinals ==
    \A r \in RunIds :
        LET es == subtitle_entries[r]
        IN  /\ [k \in 1..Len(es) |-> es[k].index] = Ascending(RecognizedOrdinals(r))
            /\ \A k \in 1..Len(es) :
                   /\ es[k].index \in 1..Len(chunks[r])
                   /\ k > 1 => es[k - 1].index < es[k].index
                   /\ outcomes[r][es[k].index].text = es[k].text
            /\ (srt_file[r].exists /\ es # <<>>) =>
                   \A k \in 1..Len(es) :
                       Lines(srt_file[r].data)[4 * k - 3] = Decimal(es[k].index)

C3_Witness ==
    /\ Len(outcomes[1]) = 3
    /\ Len(subtitle_entries[1]) = 2
    /\ subtitle_entries[1][1].index = 1
    /\ subtitle_entries[1][2].index = 3
    /\ srt_file[1].exists

(***************************************************************************)
(* C4: a run in which no segment is Recognized (no segments at all, or     *)
(* each NoSpeechDetected or Failed) and that meets no fault returns True   *)
(* and writes the sentinel artifacts: the transcript is exactly the        *)
(* sentinel sentence, the subtitle file one block: 1, 00:00:00,000 -->     *)
(* 00:00:01,000, the sentinel sentence.                                    *)
(***************************************************************************)
C4_SentinelArtifacts ==
    \A r \in RunIds :
        (Returned(r) /\ RecognizedOrdinals(r) = {}) =>
            /\ result[r] = "True"
            /\ txt_file[r] = File(Sentinel)
            /\ srt_file[r].exists
            /\ Lines(srt_file[r].data) =
                   << <<"1">>,
                      <<"0","0",":","0","0",":","0","0",",","0","0","0"," ","-","-",">"," ","0","0",":","0","0",":","0","1",",","0","0","0">>,
                      Sentinel,
                      <<>> >>

C4_Witness ==
    /\ pc[1] = "done" /\ result[1] = "True"
    /\ Kinds(1) = <<"NoSpeechDetected", "Failed", "NoSpeechDetected">>
    /\ outcomes[1][1].raised = "UnknownValueError"
    /\ outcomes[1][3].raised = ""
    /\ txt_file[1].data = Sentinel
(***************************************************************************)
(* C5: the interval of every segment is its place in the canonical signal: *)
(* it starts at the offset where the segment's slice begins and ends where *)
(* the slice ends, also when silence was discarded before or between the   *)
(* segments.                                                               *)
(***************************************************************************)
C5_AbsoluteIntervals ==
    \A r \in RunIds :
        \A k \in 1..Len(intervals[r]) :
            intervals[r][k] = <<chunks[r][k].from, chunks[r][k].to>>

(***************************************************************************)
(* C6: an exception from decoding/preprocessing or from the segmentation   *)
(* aborts the run: nothing is submitted to the recognizer, neither output  *)
(* file is written, the run returns False, and a supplied callback gets    *)
(* as its last message the error with the exception's message, and never   *)
(* the completion message; without a callback nothing is reported.         *)
(***************************************************************************)
C6_FatalAbort ==
    \A r \in RunIds :
        exc[r] \in {"DecodeError", "SplitError"} =>
            /\ pc[r] = "done"
            /\ result[r] = "False"
            /\ outcomes[r] = <<>> /\ audio[r] = NoAudio /\ i[r] = -1
            /\ txt_file[r] = NoFile /\ srt_file[r] = NoFile
            /\ has_callback[r] =>
                   /\ status[r] # <<>>
                   /\ status[r][Len(status[r])] =
                          Msg("Error during transcription", 0, exc[r])
                   /\ \A k \in 1..Len(status[r]) :
                          status[r][k].text # "Transcription complete!"
            /\ ~has_callback[r] => status[r] = <<>>

C6_Witness ==
    /\ exc[1] = "SplitError"
    /\ has_callback[1]
    /\ result[1] = "False"
    /\ sound[1].len > 0

(***************************************************************************)
(* C7: whenever at least one segment is Recognized (the recognizer         *)
(* returned a text the pipeline kept, whitespace-only text included), the  *)
(* transcript written by the run is not the empty string.                  *)
(***************************************************************************)
C7_TranscriptNonEmpty ==
    \A r \in RunIds :
        (Returned(r) /\ RecognizedOrdinals(r) # {}) => txt_file[r].data # <<>>

(***************************************************************************)
(* C8: for ms >= 0, format_time(ms) is HH:MM:SS,mmm with mmm = ms mod      *)
(* 1000, SS = (ms div 1000) mod 60, MM = (ms div 60000) mod 60 and         *)
(* HH = ms div 3600000, not wrapped, two digits unless it needs more; the  *)
(* fields add up to ms; 3661000 gives 01:01:01,000, 500 gives              *)
(* 00:00:00,500.                                                           *)
(***************************************************************************)
DigitValue(c) == CHOOSE d \in 0..9 : Digits[d + 1] = c

IsDigits(s) == \A k \in 1..Len(s) : \E d \in 0..9 : Digits[d + 1] = s[k]

RECURSIVE Number(_)
Number(s) == IF s = <<>> THEN 0
             ELSE 10 * Number(SubSeq(s, 1, Len(s) - 1)) + DigitValue(s[Len(s)])

C8_TimeRendering ==
    time_out # <<>> =>
        LET n   == Len(time_out)
            hh  == SubSeq(time_out, 1, n - 10)
            mm  == SubSeq(time_out, n - 8, n - 7)
            ss  == SubSeq(time_out, n - 5, n - 4)
            mmm == SubSeq(time_out, n - 2, n)
        IN  /\ n >= 12
            /\ time_out[n - 9] = ":" /\ time_out[n - 6] = ":" /\ time_out[n - 3] = ","
            /\ IsDigits(hh) /\ IsDigits(mm) /\ IsDigits(ss) /\ IsDigits(mmm)
            /\ Number(mmm) = time_in % 1000
            /\ Number(ss) = (time_in \div 1000) % 60
            /\ Number(mm) = (time_in \div 60000) % 60
            /\ Number(hh) = time_in \div 3600000
            /\ (n = 12) <=> (time_in \div 3600000 < 100)
            /\ Number(hh) * 3600000 + Number(mm) * 60000 + Number(ss) * 1000
                   + Number(mmm) = time_in
            /\ time_in = 3661000 => time_out = <<"0","1",":","0","1",":","0","1",",","0","0","0">>
            /\ time_in = 500 => time_out = <<"0","0",":","0","0",":","0","0",",","5","0","0">>

C8_Witness ==
    /\ time_in = 3661000
    /\ time_out = <<"0","1",":","0","1",":","0","1",",","0","0","0">>

(***************************************************************************)
(* C9: whenever a run returns, with True or with False, the temp chunk     *)
(* directory and the chunk files of the run no longer exist.               *)
(***************************************************************************)
C9_CleanupOnEveryExit ==
    \A r \in RunIds :
        pc[r] = "done" => ~temp_dir_exists /\ DOMAIN temp_files = {}

(***************************************************************************)
(* C10: two concurrent runs never collide on the chunk storage: what a run *)
(* reads back for its segment i is the chunk it wrote for segment i, and   *)
(* no run fails because of what the other did to the chunk files or the    *)
(* chunk directory.                                                        *)
(***************************************************************************)
C10_NoChunkCollision ==
    \A r \in RunIds :
        /\ audio[r] # NoAudio => audio[r] = [run |-> r, seg |-> i[r] + 1]
        /\ exc[r] = ""
(***************************************************************************)
(* C11: at every point of a run the collected texts and the subtitle       *)
(* entries have the same length and the k-th text is the text of the k-th  *)
(* entry; both hold exactly the texts of the Recognized segments in        *)
(* ascending segment order; the string handed to the formatter is these    *)
(* texts with one space between two neighbours, and nothing else.          *)
(***************************************************************************)
\* where the k-th text starts in the texts joined by single spaces
RECURSIVE JoinedOffset(_, _)
JoinedOffset(texts, k) ==
    IF k = 1 THEN 1 ELSE JoinedOffset(texts, k - 1) + Len(texts[k - 1]) + 1

C11_TextsMatchEntries ==
    \A r \in RunIds :
        LET ords  == Ascending(RecognizedOrdinals(r))
            texts == [k \in 1..Len(ords) |-> outcomes[r][ords[k]].text]
            n     == Len(texts)
            raw   == full_text[r].text
        IN  /\ Len(segment_texts[r]) = Len(subtitle_entries[r])
            /\ \A k \in 1..Len(segment_texts[r]) :
                   segment_texts[r][k] = subtitle_entries[r][k].text
            /\ segment_texts[r] = texts
            /\ full_text[r].called =>
                   /\ n > 0
                   /\ Len(raw) = JoinedOffset(texts, n) + Len(texts[n]) - 1
                   /\ \A k \in 1..n :
                          /\ SubSeq(raw, JoinedOffset(texts, k),
                                    JoinedOffset(texts, k) + Len(texts[k]) - 1) = texts[k]
                          /\ k > 1 => raw[JoinedOffset(texts, k) - 1] = " "

C11_Witness ==
    /\ full_text[1].called
    /\ Kinds(1) = <<"NoSpeechDetected", "Recognized", "Failed">>
    /\ outcomes[1][1].raised = ""
    /\ Len(segment_texts[1]) = 1
    /\ pc[1] = "done"
(***************************************************************************)
(* C12: with a callback, a run that processes N segments emits exactly one *)
(* per-segment outcome message for each segment 1..N, in ascending order,  *)
(* after "Processing N audio segments" and before the save and completion  *)
(* messages, whatever the recognizer returned for the segment.             *)
(***************************************************************************)
SegmentMessages == {"Transcribed successfully", "Could not understand audio", "Error"}

ClosingMessages ==
    {"SRT file saved to", "Text file saved to",
     "No speech detected in the audio file.", "Transcription complete!"}

Positions(r, texts) == {k \in 1..Len(status[r]) : status[r][k].text \in texts}

C12_OneMessagePerSegment ==
    \A r \in RunIds :
        (has_callback[r] /\ Returned(r)) =>
            LET seg == Ascending(Positions(r, SegmentMessages))
            IN  /\ [k \in 1..Len(seg) |-> status[r][seg[k]].n]
                       = [k \in 1..Len(chunks[r]) |-> k]
                /\ \A k \in Positions(r, SegmentMessages) :
                       /\ \A p \in Positions(r, {"Processing audio segments"}) : p < k
                       /\ \A c \in Positions(r, ClosingMessages) : k < c
(***************************************************************************)
(* C13: in the window the pipeline is never invoked concurrently: from the *)
(* launch of a worker thread until transcription_complete has run for it,  *)
(* the Start Transcription button is disabled, and at most one run is      *)
(* active at any time.                                                     *)
(***************************************************************************)
\* launched, and transcription_complete has not run for it yet
Active(r) == worker[r].state \in {"running", "returned"}

C13_SingleActiveRun ==
    /\ \A r \in RunIds : Active(r) => widget_state["start_button"] = "disabled"
    /\ \A r1, r2 \in RunIds : (Active(r1) /\ Active(r2)) => r1 = r2

(***************************************************************************)
(* C14: every change of the log and of the status bar is executed on the   *)
(* thread of the main loop; a worker thread never changes a widget itself. *)
(***************************************************************************)
C14_WidgetsChangedOnUiThread ==
    /\ \A l \in log_text : l.thread = MainThread
    /\ status_var.thread = MainThread
====
